---- MODULE Spec2Model ----
(***************************************************************************)
(* Model of src/node/lib/toolrunner.ts: the ToolRunner argument builder    *)
(* (arg, pathArg, argIf, _argStringToArray), the streaming execution path  *)
(* (exec and its four event handlers) and the blocking path (execSync).    *)
(*                                                                         *)
(* Strings are sequences of one-character strings.  A JavaScript value     *)
(* that may be null/undefined is a tuple: <<>> for null/undefined and      *)
(* <<v>> for the value v.  The debug sink is an external collaborator and  *)
(* is not part of the state.                                               *)
(***************************************************************************)
EXTENDS Integers, Sequences, FiniteSets, TLC

VARIABLES toolPath, args, threw, lastOp, nOps, inv, sync

vars == <<toolPath, args, threw, lastOp, nOps, inv, sync>>

(* ------------------------------ bounds -------------------------------- *)
MaxLen == 4
MaxOps == 2

Quote == "\""
Space == " "
Chars == {"a", Space, Quote}

RECURSIVE StringsUpTo(_)
StringsUpTo(n) ==
    IF n = 0 THEN {<<>>}
    ELSE LET prev == StringsUpTo(n - 1)
         IN  prev \cup {Append(s, c) : s \in {t \in prev : Len(t) = n - 1}, c \in Chars}

Texts == StringsUpTo(MaxLen)

None == <<>>
Some(v) == <<v>>

(* --------------------------- the tokenizer ---------------------------- *)
\* [^" ]
IsPlain(c) == c # Quote /\ c # Space

\* length of the greedy match of [^" ]* in s at position i
RECURSIVE PlainRun(_, _)
PlainRun(s, i) ==
    IF i <= Len(s) /\ IsPlain(s[i]) THEN 1 + PlainRun(s, i + 1) ELSE 0

\* length of the greedy match of [^"]* in s at position i
RECURSIVE NonQuoteRun(_, _)
NonQuoteRun(s, i) ==
    IF i <= Len(s) /\ s[i] # Quote THEN 1 + NonQuoteRun(s, i + 1) ELSE 0

\* first alternative  [^" ]*("[^"]*")[^" ]*  tried at position i:
\* the position after the match, or 0 when it does not match
MatchQuoted(s, i) ==
    LET p == i + PlainRun(s, i)
        q == p + 1 + NonQuoteRun(s, p + 1)
    IN  IF p <= Len(s) /\ s[p] = Quote /\ q <= Len(s)
        THEN q + 1 + PlainRun(s, q + 1)
        ELSE 0

\* second alternative  [^" ]+  tried at position i
MatchPlain(s, i) ==
    IF PlainRun(s, i) > 0 THEN i + PlainRun(s, i) ELSE 0

\* all matches of the global regular expression from position i on
RECURSIVE MatchFrom(_, _)
MatchFrom(s, i) ==
    IF i > Len(s) THEN <<>>
    ELSE LET e == IF MatchQuoted(s, i) # 0 THEN MatchQuoted(s, i) ELSE MatchPlain(s, i)
         IN  IF e = 0 THEN MatchFrom(s, i + 1)
             ELSE <<SubSeq(s, i, e - 1)>> \o MatchFrom(s, e)

\* String.prototype.match with a /g expression: null when nothing matches
StringMatch(s) ==
    IF MatchFrom(s, 1) = <<>> THEN None ELSE Some(MatchFrom(s, 1))

\* faulty variant: only the first quote is removed (replace without /g)
StripQuotes_First(s) ==
    IF \E i \in 1..Len(s) : s[i] = Quote
    THEN LET f == CHOOSE i \in 1..Len(s) : s[i] = Quote /\ \A j \in 1..(i - 1) : s[j] # Quote
         IN  SubSeq(s, 1, f - 1) \o SubSeq(s, f + 1, Len(s))
    ELSE s

\* replace(/"/g, "")
StripQuotes(s) == SelectSeq(s, LAMBDA c : c # Quote)

\* _argStringToArray: the tokens, or a TypeError when match returned null
argStringToArray(argString) ==
    LET m == StringMatch(argString)
    IN  IF m = None
        THEN [threw |-> TRUE, value |-> <<>>]
        ELSE [threw |-> FALSE,
              value |-> [i \in 1..Len(m[1]) |-> StripQuotes(m[1][i])]]

(* ------------------------- the argument builder ----------------------- *)
\* values the caller passes as val: a string, an array of strings, or nothing
StrVal(s) == [kind |-> "string", str |-> s, arr |-> <<>>]
ArrVal(a) == [kind |-> "array", str |-> <<>>, arr |-> a]
Absent == [kind |-> "absent", str |-> <<>>, arr |-> <<>>]

\* faulty variant: only undefined and null are caught by the early return
Falsy_OnlyAbsent(val) == val.kind = "absent"

\* !val : undefined, null and the empty string are falsy, every array is truthy
Falsy(val) == val.kind = "absent" \/ (val.kind = "string" /\ val.str = <<>>)

\* faulty variant: the literal flag is ignored and every string is tokenized
arg_LiteralSplit(a, val, literal) ==
    IF Falsy(val) THEN [args |-> a, threw |-> FALSE]
    ELSE IF val.kind = "array" THEN [args |-> a \o val.arr, threw |-> FALSE]
    ELSE LET r == argStringToArray(val.str)
         IN  IF r.threw THEN [args |-> a, threw |-> TRUE]
             ELSE [args |-> a \o r.value, threw |-> FALSE]

\* arg(val, literal) applied to the argument list a
arg(a, val, literal) ==
    IF Falsy(val) THEN [args |-> a, threw |-> FALSE]
    ELSE IF val.kind = "array" THEN [args |-> a \o val.arr, threw |-> FALSE]
    ELSE IF literal THEN [args |-> a \o <<val.str>>, threw |-> FALSE]
    ELSE LET r == argStringToArray(val.str)
         IN  IF r.threw THEN [args |-> a, threw |-> TRUE]
             ELSE [args |-> a \o r.value, threw |-> FALSE]

\* pathArg(val)
pathArg(a, val) == arg(a, val, TRUE)

\* argIf(condition, val)
argIf(a, condition, val) ==
    IF condition THEN arg(a, val, FALSE) ELSE [args |-> a, threw |-> FALSE]

SmallTexts == {<<>>, <<"a">>, <<"a", Space, "a">>, <<Quote, "a", Space, "a", Quote>>, <<Space>>}
Arrays == {<<>>, <<<<"a">>>>, <<<<"a", Space, "a">>, <<Quote>>>>}

\* the first operation on a builder is enumerated over every text
InputTexts == IF nOps = 0 THEN Texts ELSE SmallTexts
InputVals == {StrVal(s) : s \in InputTexts} \cup {ArrVal(x) : x \in Arrays} \cup {Absent}

NoOp == [op |-> "none", val |-> Absent, literal |-> FALSE, condition |-> FALSE, before |-> <<>>]

\* faulty variant: the tokens are pushed onto the array in place, so the
\* array already handed to a running child changes with it
Apply_InPlace(r, op, val, literal, condition) ==
    /\ nOps < MaxOps
    /\ nOps' = nOps + 1
    /\ args' = r.args
    /\ threw' = r.threw
    /\ lastOp' = [op |-> op, val |-> val, literal |-> literal,
                  condition |-> condition, before |-> args]
    /\ inv' = [j \in DOMAIN inv |->
                 IF inv[j].pc # "idle"
                 THEN [inv[j] EXCEPT !.spawned = Some(<<toolPath, r.args>>)]
                 ELSE inv[j]]
    /\ UNCHANGED <<toolPath, sync>>

\* one call of arg, pathArg or argIf: this.args is replaced by the
\* concatenation, a new array
Apply(r, op, val, literal, condition) ==
    /\ nOps < MaxOps
    /\ nOps' = nOps + 1
    /\ args' = r.args
    /\ threw' = r.threw
    /\ lastOp' = [op |-> op, val |-> val, literal |-> literal,
                  condition |-> condition, before |-> args]
    /\ UNCHANGED <<toolPath, inv, sync>>

Arg ==
    \E val \in InputVals, literal \in BOOLEAN :
        Apply(arg(args, val, literal), "arg", val, literal, FALSE)

PathArg ==
    \E val \in {v \in InputVals : v.kind # "array"} :
        Apply(pathArg(args, val), "pathArg", val, TRUE, FALSE)

ArgIf ==
    \E val \in InputVals, condition \in BOOLEAN :
        Apply(argIf(args, condition, val), "argIf", val, FALSE, condition)

(* ----------------------- shared option resolution --------------------- *)
\* a boolean option as passed by the caller: undefined, false or true
OptFlags == {None, Some(FALSE), Some(TRUE)}
Options == [silent : OptFlags, failOnStdErr : OptFlags, ignoreReturnCode : OptFlags]

\* options.flag || false
OrFalse(x) == x # None /\ x[1]

ResolveOps(options) ==
    [silent |-> OrFalse(options.silent),
     failOnStdErr |-> OrFalse(options.failOnStdErr),
     ignoreReturnCode |-> OrFalse(options.ignoreReturnCode)]

\* Array.prototype.join(' ')
RECURSIVE Join(_)
Join(a) ==
    IF a = <<>> THEN <<>>
    ELSE IF Len(a) = 1 THEN a[1]
    ELSE a[1] \o <<Space>> \o Join(Tail(a))

\* the composed command line: tool path, then a space and the joined
\* arguments when the joined arguments are not the empty string
CmdString(tp, a) ==
    IF Join(a) # <<>> THEN tp \o <<Space>> \o Join(a) ELSE tp

EOL == "\n"
CommandEcho(tp, a) == <<"[command]">> \o CmdString(tp, a) \o <<EOL>>

(* --------------------------- streaming path --------------------------- *)
MaxOut == 1
MaxErr == 2

\* the n-th chunk a stream delivers: chunks of one stream differ in length
Chunk(n) == [i \in 1..n |-> "x"]
ExitCodes == {None, Some(0), Some(1)}
ErrMsgs == {"ENOENT"}

ExecIds == {1}
AllIds == {1, 2}

NoError == [path |-> <<>>, kind |-> "", msg |-> "", code |-> None]
PendingDefer == [state |-> "pending", value |-> None, error |-> NoError]

\* faulty variant: a later resolve overrides an earlier settlement
DeferResolve_Override(d, v) ==
    [state |-> "fulfilled", value |-> Some(v), error |-> NoError]

\* defer.resolve / defer.reject: only a pending deferred is settled
DeferResolve(d, v) ==
    IF d.state = "pending"
    THEN [state |-> "fulfilled", value |-> Some(v), error |-> NoError]
    ELSE d

\* faulty variant: a rejection is lost
DeferReject_Lost(d, e) == d

DeferReject(d, e) ==
    IF d.state = "pending"
    THEN [state |-> "rejected", value |-> None, error |-> e]
    ELSE d

\* the observable effects of a handler, in the order the code performs them
EmitEff(type, data) == <<"emit", type, data>>
WriteEff(stream, origin, item) == <<"write", stream, origin, item>>
SpawnEff == <<"spawn">>

\* the items a sequence of effects writes to a stream, and the events it emits
WritesTo(effs, stream) ==
    LET w == SelectSeq(effs, LAMBDA e : e[1] = "write" /\ e[2] = stream)
    IN  [i \in 1..Len(w) |-> w[i][4]]

Emits(effs) ==
    LET w == SelectSeq(effs, LAMBDA e : e[1] = "emit")
    IN  [i \in 1..Len(w) |-> <<w[i][2], w[i][3]>>]

IdleInv ==
    [pc |-> "idle",
     ops |-> [silent |-> FALSE, failOnStdErr |-> FALSE, ignoreReturnCode |-> FALSE],
     success |-> TRUE, defer |-> PendingDefer,
     outStream |-> <<>>, errStream |-> <<>>, emitted |-> <<>>, effects |-> <<>>,
     spawned |-> None, launchFail |-> FALSE, trace |-> <<>>]

Count(tr, type) == Cardinality({i \in 1..Len(tr) : tr[i][1] = type})
Has(tr, type) == Count(tr, type) > 0

\* faulty variant: the child is spawned before the command is echoed
ExecEffects_SpawnFirst(ops, tp, a) ==
    <<SpawnEff>> \o (IF ~ops.silent THEN <<WriteEff("out", "echo", CommandEcho(tp, a))>> ELSE <<>>)

\* the command echo (unless silent), then child.spawn
ExecEffects(ops, tp, a) ==
    (IF ~ops.silent THEN <<WriteEff("out", "echo", CommandEcho(tp, a))>> ELSE <<>>)
        \o <<SpawnEff>>

\* what child.spawn gives back: a running child ("ok"); a child whose launch
\* failed and that reports it by an error event ("error"); or a child whose
\* launch failed and that has no stdio streams ("nostdio"), on which
\* cp.stdout.on throws a TypeError
LaunchOutcomes == {"ok", "error", "nostdio"}

\* exec(options): resolve the options, echo the command, spawn, register the
\* handlers; when cp.stdout is undefined the registration throws, exec
\* returns no promise and no handler is registered
Exec(k) ==
    \E options \in Options, launch \in LaunchOutcomes :
        /\ inv[k].pc = "idle"
        /\ LET ops == ResolveOps(options)
               effs == ExecEffects(ops, toolPath, args)
           IN  inv' = [inv EXCEPT ![k] =
                    [@ EXCEPT !.pc = IF launch = "nostdio" THEN "threw" ELSE "running",
                              !.ops = ops,
                              !.success = TRUE, !.defer = PendingDefer,
                              !.outStream = @ \o WritesTo(effs, "out"),
                              !.effects = @ \o effs,
                              !.spawned = Some(<<toolPath, args>>),
                              !.launchFail = (launch # "ok")]]
        /\ UNCHANGED <<toolPath, args, threw, lastOp, nOps, sync>>

\* faulty variant: silent also suppresses the stdout event
StdoutEffects_SilentEvent(ops, data) ==
    IF ~ops.silent THEN <<EmitEff("stdout", data), WriteEff("out", "chunk", data)>> ELSE <<>>

\* the stdout handler: emit the event, then write the chunk unless silent
StdoutEffects(ops, data) ==
    <<EmitEff("stdout", data)>>
        \o (IF ~ops.silent THEN <<WriteEff("out", "chunk", data)>> ELSE <<>>)

\* cp.stdout.on('data')
OnStdout(k) ==
    \E data \in {Chunk(Count(inv[k].trace, "stdout") + 1)} :
        /\ inv[k].pc = "running" /\ ~inv[k].launchFail
        /\ Count(inv[k].trace, "stdout") < MaxOut
        /\ LET effs == StdoutEffects(inv[k].ops, data)
           IN  inv' = [inv EXCEPT ![k] =
                 [@ EXCEPT !.emitted = @ \o Emits(effs),
                           !.outStream = @ \o WritesTo(effs, "out"),
                           !.errStream = @ \o WritesTo(effs, "err"),
                           !.effects = @ \o effs,
                           !.trace = Append(@, <<"stdout", data>>)]]
        /\ UNCHANGED <<toolPath, args, threw, lastOp, nOps, sync>>

\* faulty variant: any stderr chunk clears the flag
StderrSuccess_Always(ops) == FALSE

\* the assignment to success in the stderr handler
StderrSuccess(ops) == ~ops.failOnStdErr

\* faulty variant: stderr chunks always go to outStream
StderrStream_Out(ops) == "out"

\* var s = ops.failOnStdErr ? ops.errStream : ops.outStream
StderrStream(ops) == IF ops.failOnStdErr THEN "err" ELSE "out"

\* the stderr handler: emit the event, then write the chunk unless silent
StderrEffects(ops, data) ==
    <<EmitEff("stderr", data)>>
        \o (IF ~ops.silent THEN <<WriteEff(StderrStream(ops), "chunk", data)>> ELSE <<>>)

\* faulty variant: the success flag is kept on the invoker, so a stderr
\* chunk of one invocation sets the flag of every invocation
OnStderr_Shared(k) ==
    \E data \in {Chunk(Count(inv[k].trace, "stderr") + 1)} :
        /\ inv[k].pc = "running" /\ ~inv[k].launchFail
        /\ Count(inv[k].trace, "stderr") < MaxErr
        /\ LET ops == inv[k].ops
               effs == StderrEffects(ops, data)
           IN  inv' = [j \in DOMAIN inv |->
                 IF j = k
                 THEN [inv[j] EXCEPT !.emitted = @ \o Emits(effs),
                                     !.success = StderrSuccess(ops),
                                     !.errStream = @ \o WritesTo(effs, "err"),
                                     !.outStream = @ \o WritesTo(effs, "out"),
                                     !.effects = @ \o effs,
                                     !.trace = Append(@, <<"stderr", data>>)]
                 ELSE [inv[j] EXCEPT !.success = StderrSuccess(ops)]]
        /\ UNCHANGED <<toolPath, args, threw, lastOp, nOps, sync>>

\* cp.stderr.on('data')
OnStderr(k) ==
    \E data \in {Chunk(Count(inv[k].trace, "stderr") + 1)} :
        /\ inv[k].pc = "running" /\ ~inv[k].launchFail
        /\ Count(inv[k].trace, "stderr") < MaxErr
        /\ LET ops == inv[k].ops
               effs == StderrEffects(ops, data)
           IN  inv' = [inv EXCEPT ![k] =
                 [@ EXCEPT !.emitted = @ \o Emits(effs),
                           !.success = StderrSuccess(ops),
                           !.errStream = @ \o WritesTo(effs, "err"),
                           !.outStream = @ \o WritesTo(effs, "out"),
                           !.effects = @ \o effs,
                           !.trace = Append(@, <<"stderr", data>>)]]
        /\ UNCHANGED <<toolPath, args, threw, lastOp, nOps, sync>>

\* new Error(this.toolPath + ' failed. ' + err.message)
LaunchError(tp, msg) == [path |-> tp, kind |-> " failed. ", msg |-> msg, code |-> None]

\* new Error(this.toolPath + ' failed with return code: ' + code)
ExitError(tp, code) ==
    [path |-> tp, kind |-> " failed with return code: ", msg |-> "", code |-> code]

\* the settlement the error handler asks for
ErrorSettle(d, tp, msg) == DeferReject(d, LaunchError(tp, msg))

\* cp.on('error'): at most one error event; a failed launch reports it first
OnError(k) ==
    \E msg \in ErrMsgs :
        /\ inv[k].pc = "running"
        /\ ~Has(inv[k].trace, "error")
        /\ inv' = [inv EXCEPT ![k] =
                 [@ EXCEPT !.defer = ErrorSettle(@, toolPath, msg),
                           !.trace = Append(@, <<"error", msg>>)]]
        /\ UNCHANGED <<toolPath, args, threw, lastOp, nOps, sync>>

\* the error event of a child on which exec threw: exec registered no
\* handler for it, so nothing of the invocation changes
OnErrorUnhandled(k) ==
    \E msg \in ErrMsgs :
        /\ inv[k].pc = "threw"
        /\ ~Has(inv[k].trace, "error")
        /\ inv' = [inv EXCEPT ![k] = [@ EXCEPT !.trace = Append(@, <<"error", msg>>)]]
        /\ UNCHANGED <<toolPath, args, threw, lastOp, nOps, sync>>

\* faulty variants of the exit handler's test
ExitSuccess_NoIgnore(success, ops, code) ==
    IF code # Some(0) THEN FALSE ELSE success

ExitSuccess_StdErrPolicy(success, ops, code) ==
    IF (code # Some(0) /\ ~ops.ignoreReturnCode) \/ ops.failOnStdErr THEN FALSE ELSE success

\* the success flag after the exit handler's test of the code
ExitSuccess(success, ops, code) ==
    IF code # Some(0) /\ ~ops.ignoreReturnCode THEN FALSE ELSE success

\* the settlement the exit handler asks for
ExitSettle(d, ok, tp, code) ==
    IF ok THEN DeferResolve(d, code) ELSE DeferReject(d, ExitError(tp, code))

\* cp.on('exit'): at most one exit event; null code when killed by a signal
OnExit(k) ==
    \E code \in ExitCodes :
        /\ inv[k].pc = "running"
        /\ ~Has(inv[k].trace, "exit")
        /\ inv[k].launchFail => Has(inv[k].trace, "error")
        /\ LET ok == ExitSuccess(inv[k].success, inv[k].ops, code)
           IN  inv' = [inv EXCEPT ![k] =
                 [@ EXCEPT !.success = ok,
                           !.defer = ExitSettle(@, ok, toolPath, code),
                           !.trace = Append(@, <<"exit", code>>)]]
        /\ UNCHANGED <<toolPath, args, threw, lastOp, nOps, sync>>

(* ---------------------------- blocking path --------------------------- *)
SyncOutputs == {<<>>, <<"x">>}
SyncStatus == {None, Some(0), Some(1)}

\* the error spawnSync reports when the collected output exceeds maxBuffer
AbortMsgs == {"ENOBUFS"}

\* what child.spawnSync reports: a terminated process, a failed launch, or
\* an overflow of maxBuffer: the output collected so far and an error, with
\* no status when it killed the process and with the exit status when the
\* process had already exited and a descendant kept writing to its pipes
SpawnSyncResults ==
    [status : SyncStatus, stdout : {Some(o) : o \in SyncOutputs},
     stderr : {Some(o) : o \in SyncOutputs}, error : {None}]
    \cup {[status |-> None, stdout |-> None, stderr |-> None, error |-> Some(m)] : m \in ErrMsgs}
    \cup [status : SyncStatus, stdout : {Some(o) : o \in SyncOutputs},
          stderr : {Some(o) : o \in SyncOutputs}, error : {Some(m) : m \in AbortMsgs}]

NoResult == [code |-> None, stdout |-> None, stderr |-> None, error |-> None]

IdleSync ==
    [pc |-> "idle",
     ops |-> [silent |-> FALSE, failOnStdErr |-> FALSE, ignoreReturnCode |-> FALSE],
     r |-> [status |-> None, stdout |-> None, stderr |-> None, error |-> None],
     result |-> NoResult,
     outStream |-> <<>>, errStream |-> <<>>, effects |-> <<>>, spawned |-> None]

\* r.stdout && r.stdout.length > 0
NonEmptyBuffer(b) == b # None /\ Len(b[1]) > 0

\* the guard of the write of r.stdout and of r.stderr
SyncWrites(ops, b) == NonEmptyBuffer(b)

\* the value execSync returns for the spawnSync report r
SyncResult(r) ==
    [code |-> r.status, stdout |-> r.stdout, stderr |-> r.stderr, error |-> r.error]

\* the command echo (unless silent), child.spawnSync, then the collected output
SyncEffects(ops, tp, a, r) ==
    (IF ~ops.silent THEN <<WriteEff("out", "echo", CommandEcho(tp, a))>> ELSE <<>>)
        \o <<SpawnEff>>
        \o (IF SyncWrites(ops, r.stdout) THEN <<WriteEff("out", "chunk", r.stdout[1])>> ELSE <<>>)
        \o (IF SyncWrites(ops, r.stderr) THEN <<WriteEff("err", "chunk", r.stderr[1])>> ELSE <<>>)

\* execSync(options): echo, spawnSync, write the collected output, return
ExecSync ==
    \E options \in Options, r \in SpawnSyncResults :
        /\ sync.pc = "idle"
        /\ LET ops == ResolveOps(options)
               effs == SyncEffects(ops, toolPath, args, r)
           IN  sync' = [pc |-> "done", ops |-> ops, r |-> r,
                        result |-> SyncResult(r),
                        outStream |-> sync.outStream \o WritesTo(effs, "out"),
                        errStream |-> sync.errStream \o WritesTo(effs, "err"),
                        effects |-> sync.effects \o effs,
                        spawned |-> Some(<<toolPath, args>>)]
        /\ UNCHANGED <<toolPath, args, threw, lastOp, nOps, inv>>

(* --------------------------- specifications --------------------------- *)
ToolPaths == {<<"t">>}
BuiltArgs == {<<>>, <<<<"a">>, <<"a", Space, "a">>>>}

\* the state after new ToolRunner(toolPath)
Init ==
    /\ toolPath \in ToolPaths
    /\ args = <<>>
    /\ threw = FALSE
    /\ lastOp = NoOp
    /\ nOps = 0
    /\ inv = [k \in AllIds |-> IdleInv]
    /\ sync = IdleSync

\* the argument builder
Next == Arg \/ PathArg \/ ArgIf

Spec == Init /\ [][Next]_vars

\* a built invoker about to execute
InitBuilt ==
    /\ toolPath \in ToolPaths
    /\ args \in BuiltArgs
    /\ threw = FALSE
    /\ lastOp = NoOp
    /\ nOps = 0
    /\ inv = [k \in AllIds |-> IdleInv]
    /\ sync = IdleSync

\* one streaming invocation and the events of its child process
NextExec ==
    \E k \in ExecIds :
        Exec(k) \/ OnStdout(k) \/ OnStderr(k) \/ OnError(k) \/ OnExit(k) \/ OnErrorUnhandled(k)

SpecExec == InitBuilt /\ [][NextExec]_vars

\* one blocking invocation
NextSync == ExecSync

SpecSync == InitBuilt /\ [][NextSync]_vars

\* both paths on one invoker, for a child process that produces no output chunks
NextLaunch ==
    (\E k \in ExecIds : Exec(k) \/ OnError(k) \/ OnExit(k) \/ OnErrorUnhandled(k)) \/ ExecSync

SpecLaunch == InitBuilt /\ [][NextLaunch]_vars

\* the delivery of the first terminal event (error or exit) of a child
FirstTerminal(k) ==
    /\ ~Has(inv[k].trace, "error") /\ ~Has(inv[k].trace, "exit")
    /\ (OnError(k) \/ OnExit(k))

\* the streaming invocation on a platform that eventually delivers the
\* error event or the exit event of a spawned child; nothing need follow it
SpecExecLive ==
    SpecExec /\ \A k \in ExecIds : WF_vars(FirstTerminal(k))

\* two streaming invocations of one invoker running concurrently, their
\* events interleaved; each child delivers at most MaxConc events, none on stdout
MaxConc == 2

NextConc ==
    \E k \in AllIds :
        \/ Exec(k)
        \/ /\ Len(inv[k].trace) < MaxConc
           /\ (OnStderr(k) \/ OnError(k) \/ OnExit(k) \/ OnErrorUnhandled(k))

SpecConc == InitBuilt /\ [][NextConc]_vars

\* appends made before, during and after one invocation on either path;
\* the appended value is one short text and the child delivers at most
\* MaxConc events
MixedVals == {StrVal(<<"a">>)}

NextMixed ==
    \/ (Arg \/ PathArg \/ ArgIf) /\ lastOp'.val \in MixedVals
    \/ /\ sync.pc = "idle"
       /\ \E k \in ExecIds :
             \/ Exec(k)
             \/ /\ Len(inv[k].trace) < MaxConc
                /\ (OnStdout(k) \/ OnStderr(k) \/ OnError(k) \/ OnExit(k)
                      \/ OnErrorUnhandled(k))
    \/ inv[1].pc = "idle" /\ ExecSync

SpecMixed == Init /\ [][NextMixed]_vars

\* one invocation of the invoker, on either path
NextOne ==
    \/ sync.pc = "idle" /\ NextExec
    \/ inv[1].pc = "idle" /\ NextSync

SpecOne == InitBuilt /\ [][NextOne]_vars

(* ------------------------- trace vocabulary --------------------------- *)
Before(tr, a, b) == \E i, j \in 1..Len(tr) : i < j /\ tr[i][1] = a /\ tr[j][1] = b
Pos(tr, type) == CHOOSE i \in 1..Len(tr) : tr[i][1] = type
ExitCode(tr) == tr[Pos(tr, "exit")][2]
ErrorMsg(tr) == tr[Pos(tr, "error")][2]
\* the exit event was delivered and no error event preceded it
ExitFirst(tr) == Has(tr, "exit") /\ ~Before(tr, "error", "exit")
Fulfilled(d, code) == d.state = "fulfilled" /\ d.value = Some(code)

(* ------------------------------ claims -------------------------------- *)
Run == inv[1]

\* C1: on the streaming path with failOnStdErr, once a stderr chunk has been
\* received the handle is never resolved, whatever the exit code, the other
\* options and the order of the stderr and exit events.
C1_StderrNeverResolves ==
    \A k \in ExecIds :
        (inv[k].ops.failOnStdErr /\ Has(inv[k].trace, "stderr"))
            => inv[k].defer.state # "fulfilled"

\* C2: on the streaming path, after an exit with a non-zero code c that no
\* error event preceded, the handle is rejected when ignoreReturnCode is
\* false, and is resolved with exactly c when ignoreReturnCode is true and
\* failOnStdErr is false or no stderr chunk preceded the exit.
C2_NonZeroExit ==
    \A k \in ExecIds :
        LET tr == inv[k].trace
            ops == inv[k].ops
        IN  (ExitFirst(tr) /\ ExitCode(tr) # None /\ ExitCode(tr) # Some(0)) =>
                /\ ~ops.ignoreReturnCode => inv[k].defer.state = "rejected"
                /\ (ops.ignoreReturnCode /\ (~ops.failOnStdErr \/ ~Before(tr, "stderr", "exit")))
                       => Fulfilled(inv[k].defer, ExitCode(tr))

C2_Witness ==
    /\ ExitFirst(Run.trace) /\ ExitCode(Run.trace) = Some(1)
    /\ Run.ops.ignoreReturnCode /\ ~Run.ops.failOnStdErr
    /\ Before(Run.trace, "stderr", "exit")
    /\ Fulfilled(Run.defer, Some(1))

\* C3: on the streaming path, an exit with code 0 that neither a stderr
\* chunk nor an error event preceded resolves the handle with 0, for every
\* option combination and any number of stdout chunks.
C3_CleanExitResolves ==
    \A k \in ExecIds :
        LET tr == inv[k].trace
        IN  (ExitFirst(tr) /\ ExitCode(tr) = Some(0) /\ ~Before(tr, "stderr", "exit"))
                => Fulfilled(inv[k].defer, Some(0))

C3_Witness ==
    /\ ExitFirst(Run.trace) /\ ExitCode(Run.trace) = Some(0)
    /\ ~Has(Run.trace, "stderr") /\ Before(Run.trace, "stdout", "exit")
    /\ Run.ops.failOnStdErr /\ ~Run.ops.ignoreReturnCode /\ Run.ops.silent
    /\ Fulfilled(Run.defer, Some(0))

\* C4: on the streaming path with failOnStdErr false (given or defaulted),
\* stderr chunks do not affect the verdict: after an exit that no error
\* event preceded, the handle is resolved (with the exit code) exactly when
\* the code is 0 or ignoreReturnCode is true, and is rejected otherwise.
C4_StderrIgnored ==
    \A k \in ExecIds :
        LET tr == inv[k].trace
            ops == inv[k].ops
        IN  (~ops.failOnStdErr /\ ExitFirst(tr)) =>
                IF ExitCode(tr) = Some(0) \/ ops.ignoreReturnCode
                THEN Fulfilled(inv[k].defer, ExitCode(tr))
                ELSE inv[k].defer.state = "rejected"

C4_Witness ==
    /\ ~Run.ops.failOnStdErr /\ ~Run.ops.ignoreReturnCode
    /\ ExitFirst(Run.trace) /\ ExitCode(Run.trace) = Some(0)
    /\ Count(Run.trace, "stderr") >= 2 /\ ~Has(Run.trace, "stdout")
    /\ Before(Run.trace, "stderr", "exit")
    /\ Fulfilled(Run.defer, Some(0))

\* C5: a launch failure is a failure on both paths for every option set:
\* the streaming handle is never resolved and, once the error event is
\* delivered, is rejected with the error built from the tool path and the
\* platform message; the blocking result carries the platform error.
C5_LaunchFailure ==
    /\ \A k \in ExecIds :
          inv[k].launchFail =>
              /\ inv[k].defer.state # "fulfilled"
              /\ Has(inv[k].trace, "error") =>
                     /\ inv[k].defer.state = "rejected"
                     /\ inv[k].defer.error = LaunchError(toolPath, ErrorMsg(inv[k].trace))
    /\ (sync.pc = "done" /\ sync.r.error # None) =>
          (sync.result.error # None /\ sync.result.error = sync.r.error)

\* C6: the handle of a streaming invocation is settled at most once: once
\* it is resolved or rejected, no later event changes its outcome or value.
C6_SettledOnce ==
    [][\A k \in ExecIds :
          inv[k].defer.state # "pending" => inv'[k].defer = inv[k].defer]_vars

C6_Witness ==
    /\ Before(Run.trace, "error", "exit") /\ Before(Run.trace, "exit", "stderr")
    /\ ExitCode(Run.trace) = Some(0)
    /\ Run.defer.state = "rejected"

\* C7: on the blocking path silent suppresses every write: with silent set
\* neither the command echo nor the collected output reaches outStream or
\* errStream; without it the non-empty collected output is written.
C7_SilentSyncWritesNothing ==
    sync.pc = "done" =>
        IF sync.ops.silent
        THEN sync.outStream = <<>> /\ sync.errStream = <<>>
        ELSE /\ NonEmptyBuffer(sync.r.stdout) =>
                    sync.outStream = <<CommandEcho(toolPath, args), sync.r.stdout[1]>>
             /\ NonEmptyBuffer(sync.r.stderr) => sync.errStream = <<sync.r.stderr[1]>>

\* C8: the blocking path reports the raw outcome: for every status, output
\* and option set it returns a result whose code, stdout and stderr are the
\* ones spawnSync reported, with no error when the process terminated
\* normally, that is, exited with a status, zero or not.
C8_SyncRawOutcome ==
    sync.pc = "done" =>
        /\ sync.result.code = sync.r.status
        /\ sync.result.stdout = sync.r.stdout
        /\ sync.result.stderr = sync.r.stderr
        /\ sync.r.status # None => sync.result.error = None

\* the last operation was arg(text, literal = false) with a non-empty text
Tokenized ==
    /\ lastOp.op = "arg" /\ ~lastOp.literal
    /\ lastOp.val.kind = "string" /\ lastOp.val.str # <<>>

\* C9: tokenization is total: arg(text, false) completes without raising
\* an error for every non-empty text, well quoted or not.
C9_TokenizationTotal == Tokenized => ~threw

\* the double quotes of s are balanced
Balanced(s) == Cardinality({i \in 1..Len(s) : s[i] = Quote}) % 2 = 0

\* the maximal runs of s separated by spaces lying outside quoted spans
RECURSIVE Runs(_, _, _, _)
Runs(s, i, cur, inQuote) ==
    LET flush == IF cur # <<>> THEN <<cur>> ELSE <<>>
    IN  IF i > Len(s) THEN flush
        ELSE IF s[i] = Quote THEN Runs(s, i + 1, Append(cur, s[i]), ~inQuote)
        ELSE IF s[i] = Space /\ ~inQuote THEN flush \o Runs(s, i + 1, <<>>, FALSE)
        ELSE Runs(s, i + 1, Append(cur, s[i]), inQuote)

\* the segmentation the specification describes: each run, quotes removed
Segmentation(s) ==
    LET runs == Runs(s, 1, <<>>, FALSE)
    IN  [i \in 1..Len(runs) |-> StripQuotes(runs[i])]

\* C10: for a text with balanced quotes, whenever tokenization completes the
\* appended tokens are exactly the maximal runs separated by spaces outside
\* quoted spans, in order, quotes removed; a run holding several quoted
\* spans is one token.
C10_Segmentation ==
    (Tokenized /\ Balanced(lastOp.val.str) /\ ~threw)
        => args = lastOp.before \o Segmentation(lastOp.val.str)

\* the tokens the last operation appended
Appended == SubSeq(args, Len(lastOp.before) + 1, Len(args))
HasQuote(s) == \E i \in 1..Len(s) : s[i] = Quote

\* C11: after arg(text, literal = false), for any text, balanced or not, no
\* token it appended contains a double-quote character.
C11_NoQuoteInTokens ==
    Tokenized => \A i \in 1..Len(Appended) : ~HasQuote(Appended[i])

C11_Witness ==
    /\ Tokenized /\ ~threw
    /\ ~Balanced(lastOp.val.str)
    /\ Len(Appended) >= 2

\* C12: args is append-only and order-preserving: every operation keeps the
\* previous args as a prefix; a literal append (arg with literal = true or
\* pathArg) of a non-empty text adds exactly that text as one token, and an
\* array append adds the elements of the array as they are.
C12_AppendOnly ==
    lastOp.op # "none" =>
        /\ Len(args) >= Len(lastOp.before)
        /\ SubSeq(args, 1, Len(lastOp.before)) = lastOp.before
        /\ (lastOp.op \in {"arg", "pathArg"} /\ lastOp.literal
              /\ lastOp.val.kind = "string" /\ lastOp.val.str # <<>>)
             => (args = Append(lastOp.before, lastOp.val.str) /\ ~threw)
        /\ (lastOp.op = "arg" /\ lastOp.val.kind = "array")
             => (args = lastOp.before \o lastOp.val.arr /\ ~threw)

C12_Witness ==
    /\ lastOp.op = "pathArg" /\ lastOp.val.kind = "string"
    /\ HasQuote(lastOp.val.str) /\ Space \in {lastOp.val.str[i] : i \in 1..Len(lastOp.val.str)}
    /\ lastOp.before # <<>>
    /\ args = Append(lastOp.before, lastOp.val.str)

\* C13: appends without effect: arg or pathArg with an empty or absent text
\* leaves args unchanged for either value of literal and raises nothing;
\* argIf with a false condition leaves args unchanged; argIf with a true
\* condition has the effect of arg on the same value.
C13_NoOpAppends ==
    /\ (lastOp.op \in {"arg", "pathArg"} /\ lastOp.val.kind # "array"
          /\ (lastOp.val.kind = "absent" \/ lastOp.val.str = <<>>))
         => (args = lastOp.before /\ ~threw)
    /\ (lastOp.op = "argIf" /\ ~lastOp.condition) => (args = lastOp.before /\ ~threw)
    /\ (lastOp.op = "argIf" /\ lastOp.condition)
         => /\ args = arg(lastOp.before, lastOp.val, FALSE).args
            /\ threw = arg(lastOp.before, lastOp.val, FALSE).threw

C13_Witness ==
    /\ lastOp.op = "arg" /\ lastOp.literal
    /\ lastOp.val.kind = "string" /\ lastOp.val.str = <<>>
    /\ lastOp.before # <<>> /\ args = lastOp.before

\* the chunk events of a trace, in the order of their delivery
ChunkEvents(tr) == SelectSeq(tr, LAMBDA e : e[1] \in {"stdout", "stderr"})

\* C14: on the streaming path every stdout chunk received produces exactly
\* one stdout event and every stderr chunk exactly one stderr event, in the
\* order received, whatever silent and failOnStdErr are.
C14_OneEventPerChunk ==
    \A k \in ExecIds : inv[k].emitted = ChunkEvents(inv[k].trace)

C14_Witness ==
    /\ Run.ops.silent /\ Run.ops.failOnStdErr
    /\ Before(Run.trace, "stderr", "stdout") /\ Before(Run.trace, "stdout", "stderr")
    /\ Len(Run.emitted) = 3
    /\ Run.outStream = <<>> /\ Run.errStream = <<>>

EchoWrites(effs) == Cardinality({i \in 1..Len(effs) : effs[i][1] = "write" /\ effs[i][3] = "echo"})
Spawns(effs) == Cardinality({i \in 1..Len(effs) : effs[i] = SpawnEff})
AnyWrite(effs) == \E i \in 1..Len(effs) : effs[i][1] = "write"

\* the echo is the first effect, the spawn the second, and neither recurs
EchoThenSpawn(effs, echo) ==
    /\ Len(effs) >= 2
    /\ effs[1] = WriteEff("out", "echo", echo)
    /\ effs[2] = SpawnEff
    /\ EchoWrites(effs) = 1 /\ Spawns(effs) = 1

\* C15: on both paths, when silent is false the command line is written to
\* outStream exactly once per invocation, before the spawn and so before any
\* output is written or any chunk event emitted; when silent is true the
\* streaming path writes nothing to outStream or errStream.
C15_EchoBeforeSpawn ==
    /\ \A k \in ExecIds :
          inv[k].pc # "idle" =>
              IF ~inv[k].ops.silent
              THEN EchoThenSpawn(inv[k].effects, CommandEcho(toolPath, args))
              ELSE /\ ~AnyWrite(inv[k].effects)
                   /\ inv[k].outStream = <<>> /\ inv[k].errStream = <<>>
    /\ (sync.pc = "done" /\ ~sync.ops.silent)
          => EchoThenSpawn(sync.effects, CommandEcho(toolPath, args))

C15_Witness ==
    /\ Run.pc = "running" /\ ~Run.ops.silent /\ args # <<>>
    /\ Has(Run.trace, "stdout") /\ Has(Run.trace, "stderr") /\ Has(Run.trace, "exit")
    /\ Run.outStream[1] = CommandEcho(toolPath, args)

\* the effects of the chunk events of a trace when silent is false: for each
\* chunk its event, then its write to the stream it is routed to
RECURSIVE Routed(_, _)
Routed(ev, failOnStdErr) ==
    IF ev = <<>> THEN <<>>
    ELSE LET type == ev[1][1]
             data == ev[1][2]
             stream == IF type = "stderr" /\ failOnStdErr THEN "err" ELSE "out"
         IN  <<EmitEff(type, data), WriteEff(stream, "chunk", data)>>
                 \o Routed(Tail(ev), failOnStdErr)

\* C16: on the streaming path with silent false, each stdout chunk is
\* written to outStream only, each stderr chunk to exactly one stream
\* (errStream when failOnStdErr, outStream otherwise), in the order
\* received, a chunk's event and write preceding those of the next chunk.
C16_Routing ==
    \A k \in ExecIds :
        (inv[k].pc = "running" /\ ~inv[k].ops.silent) =>
            LET routed == Routed(ChunkEvents(inv[k].trace), inv[k].ops.failOnStdErr)
                echo == WriteEff("out", "echo", CommandEcho(toolPath, args))
            IN  /\ inv[k].effects = <<echo, SpawnEff>> \o routed
                /\ inv[k].outStream = WritesTo(<<echo>> \o routed, "out")
                /\ inv[k].errStream = WritesTo(routed, "err")

C16_Witness ==
    /\ Run.pc = "running" /\ ~Run.ops.silent /\ Run.ops.failOnStdErr
    /\ Before(Run.trace, "stderr", "stdout") /\ Before(Run.trace, "stdout", "stderr")
    /\ Len(Run.errStream) = 2 /\ Len(Run.outStream) = 2
    /\ Run.errStream[1] # Run.errStream[2]

\* C17: the success flag of a streaming invocation is monotone: once false
\* it is never true again, for every sequence of events and option set.
C17_SuccessMonotone ==
    [][\A k \in ExecIds :
          (inv[k].pc = "running" /\ ~inv[k].success) => ~inv'[k].success]_vars

Settled(k) == inv[k].defer.state # "pending"
Terminal(k) == Has(inv[k].trace, "error") \/ Has(inv[k].trace, "exit")

\* C18: if the platform eventually delivers an error or an exit event, the
\* handle returned by exec (a call that returned one) is eventually settled;
\* it is pending exactly as long as neither event has been delivered.
C18_EventuallySettled ==
    /\ [](\A k \in ExecIds : inv[k].pc = "running" => (Settled(k) <=> Terminal(k)))
    /\ \A k \in ExecIds : (inv[k].pc = "running") ~> Settled(k)

C18_Witness ==
    /\ Run.pc = "running" /\ Settled(1)
    /\ Has(Run.trace, "exit") /\ ~Has(Run.trace, "error")
    /\ Run.trace[Len(Run.trace)][1] = "exit"
    /\ Len(Run.trace) >= 3

\* the success flag and the deferred of an invocation that handles the
\* events tr alone, with options ops
RECURSIVE Replay(_, _, _, _)
Replay(ops, tr, success, d) ==
    IF tr = <<>> THEN [success |-> success, defer |-> d]
    ELSE LET e == Head(tr)
         IN  IF e[1] = "stderr" THEN Replay(ops, Tail(tr), ~ops.failOnStdErr, d)
             ELSE IF e[1] = "error"
                  THEN Replay(ops, Tail(tr), success, DeferReject(d, LaunchError(toolPath, e[2])))
             ELSE IF e[1] = "exit"
                  THEN LET ok == success /\ (e[2] = Some(0) \/ ops.ignoreReturnCode)
                       IN  Replay(ops, Tail(tr), ok,
                                  IF ok THEN DeferResolve(d, e[2])
                                  ELSE DeferReject(d, ExitError(toolPath, e[2])))
             ELSE Replay(ops, Tail(tr), success, d)

\* C19: two concurrent streaming invocations are independent: whatever the
\* interleaving of their events, the verdict (and the success flag) of each
\* is the one its own options and its own events give when handled alone.
C19_Independent ==
    \A k \in AllIds :
        inv[k].pc = "running" =>
            LET alone == Replay(inv[k].ops, inv[k].trace, TRUE, PendingDefer)
            IN  inv[k].defer = alone.defer /\ inv[k].success = alone.success

C19_Witness ==
    /\ inv[1].pc = "running" /\ inv[2].pc = "running"
    /\ inv[1].ops.failOnStdErr /\ Before(inv[1].trace, "stderr", "exit")
    /\ inv[1].defer.state = "rejected"
    /\ inv[2].ops.failOnStdErr /\ ~inv[2].ops.ignoreReturnCode
    /\ inv[2].trace = <<<<"exit", Some(0)>>>>
    /\ Fulfilled(inv[2].defer, Some(0))

\* C20: execution never changes the invocation spec: every step that is not
\* an append (exec, execSync, each event handler) leaves args and toolPath
\* unchanged; the arguments handed to spawn / spawnSync are args as it is at
\* the call, and no later step, appends included, changes what was handed.
C20_SpecNotMutated ==
    [][/\ nOps' = nOps => (args' = args /\ toolPath' = toolPath)
       /\ \A k \in ExecIds :
             /\ (inv[k].pc = "idle" /\ inv'[k].pc # "idle")
                   => inv'[k].spawned = Some(<<toolPath, args>>)
             /\ inv[k].pc # "idle" => inv'[k].spawned = inv[k].spawned
       /\ (sync.pc = "idle" /\ sync'.pc = "done") => sync'.spawned = Some(<<toolPath, args>>)
       /\ sync.pc = "done" => sync'.spawned = sync.spawned]_vars

C20_Witness ==
    /\ Run.pc = "running" /\ Has(Run.trace, "exit") /\ Has(Run.trace, "stderr")
    /\ Run.spawned[1][2] # <<>>
    /\ Len(args) > Len(Run.spawned[1][2])
    /\ SubSeq(args, 1, Len(Run.spawned[1][2])) = Run.spawned[1][2]

====
